---- MODULE Spec2Model ----
(***************************************************************************)
(* Model of week2/week2_assignments/etl.py: the housing-data ETL pipeline  *)
(* (file reading, merge, cleaning, validation gate, feature engineering,   *)
(* persistence to a feature store), run repeatedly against one feature     *)
(* store.                                                                  *)
(*                                                                         *)
(* Representation.  A table (pandas DataFrame) is a record                 *)
(*   [cols |-> set of column names, rows |-> sequence of rows]             *)
(* and a row is [cells |-> function from cols to values, nan |-> the set   *)
(* of columns whose cell is missing (NaN)].  A text cell is a tuple of     *)
(* one-character strings, so that the string operations of the code can be *)
(* computed.  Distances are fixed-point numbers with three decimals        *)
(* (thousandths), so that the division by 1000 is exact.  Datetimes are    *)
(* day counts since 1970-01-01; raw date strings are <<year, month, day>>. *)
(***************************************************************************)
EXTENDS Integers, Sequences, FiniteSets, TLC

\* ------------------------------------------------------------------ bounds
\* Longest text drawn for the typo-repair inputs of SpecTypo.
MaxLen == 3
\* Longest vocabulary drawn for the typo-repair inputs of SpecTypo.
MaxVocab == 2
\* Number of pipeline runs made against the one feature store.
MaxRuns == 2

\* ------------------------------------------------------------ text helpers
Max2(a, b) == IF a >= b THEN a ELSE b

UpperChars == <<"A","B","C","D","E","F","G","H","I","J","K","L","M",
                "N","O","P","Q","R","S","T","U","V","W","X","Y","Z">>
LowerChars == <<"a","b","c","d","e","f","g","h","i","j","k","l","m",
                "n","o","p","q","r","s","t","u","v","w","x","y","z">>
Digits == {"0","1","2","3","4","5","6","7","8","9"}
Whitespace == {" "}

UpperSet == {UpperChars[i] : i \in 1..Len(UpperChars)}
LowerSet == {LowerChars[i] : i \in 1..Len(LowerChars)}
Alphanumeric == UpperSet \cup LowerSet \cup Digits

\* The lowercase letter of each uppercase letter
LowerOf ==
    [c \in UpperSet |->
        LowerChars[CHOOSE i \in 1..Len(UpperChars) : UpperChars[i] = c]]

\* str.lower() on one character
LowerChar(c) == IF c \in UpperSet THEN LowerOf[c] ELSE c

\* Series.str.lower()
StrLower(s) == [i \in 1..Len(s) |-> LowerChar(s[i])]

RECURSIVE LStrip(_)
LStrip(s) ==
    IF s # <<>> /\ Head(s) \in Whitespace THEN LStrip(Tail(s)) ELSE s

RECURSIVE RStrip(_)
RStrip(s) ==
    IF s # <<>> /\ s[Len(s)] \in Whitespace
    THEN RStrip(SubSeq(s, 1, Len(s) - 1))
    ELSE s

\* Series.str.strip(): leading and trailing white space removed
StrStrip(s) == RStrip(LStrip(s))

\* ------------------------------------------------- thefuzz: fuzz.ratio
\* The default processor of process.extractOne (utils.full_process): every
\* character that is neither a letter nor a digit becomes a space, the text
\* is lowercased and stripped.  It is applied to the query and to each choice.
FullProcess(s) ==
    StrStrip(StrLower([i \in 1..Len(s) |->
        IF s[i] \in Alphanumeric THEN s[i] ELSE " "]))

\* One row of the longest-common-subsequence table: prev is the row of the
\* previous character of the first text, acc the part of this row built so
\* far (acc[j+1] is the entry of column j).
RECURSIVE LcsRow(_, _, _, _)
LcsRow(prev, ch, t, acc) ==
    IF Len(acc) = Len(t) + 1
    THEN acc
    ELSE LET j == Len(acc)
             v == IF ch = t[j] THEN prev[j] + 1 ELSE Max2(prev[j + 1], acc[j])
         IN  LcsRow(prev, ch, t, Append(acc, v))

RECURSIVE LcsRows(_, _, _, _)
LcsRows(s, t, i, prev) ==
    IF i > Len(s)
    THEN prev
    ELSE LcsRows(s, t, i + 1, LcsRow(prev, s[i], t, <<0>>))

\* Length of the longest common subsequence of s and t
LcsLen(s, t) == LcsRows(s, t, 1, [j \in 1..(Len(t) + 1) |-> 0])[Len(t) + 1]

\* round(): to the nearest integer, halves to the even neighbour; num/den >= 0
RoundHalfEven(num, den) ==
    LET q == num \div den
        r == num % den
    IN  IF 2 * r < den THEN q
        ELSE IF 2 * r > den THEN q + 1
        ELSE IF q % 2 = 0 THEN q ELSE q + 1

\* fuzz.ratio: the normalized insert/delete similarity 2*LCS/(|s|+|t|) on the
\* scale 0..100, rounded to an integer; 0 when either text is empty.
FuzzRatio(s, t) ==
    IF Len(s) = 0 \/ Len(t) = 0
    THEN 0
    ELSE RoundHalfEven(200 * LcsLen(s, t), Len(s) + Len(t))

\* The scoring scan of process.extractOne(value, choices, scorer=fuzz.ratio):
\* the choices are scored in order and a later choice replaces the best one
\* only when its score is strictly higher.  q is the processed query and
\* best is <<index, score>>.
RECURSIVE ScanChoices(_, _, _, _)
ScanChoices(q, choices, i, best) ==
    IF i > Len(choices)
    THEN best
    ELSE LET sc == FuzzRatio(q, FullProcess(choices[i]))
         IN  ScanChoices(q, choices, i + 1,
                         IF sc > best[2] THEN <<i, sc>> ELSE best)

\* process.extractOne: (best_match, score); the match is the choice as given
ExtractOne(query, choices) ==
    LET q == FullProcess(query)
        best == ScanChoices(q, choices, 2, <<1, FuzzRatio(q, FullProcess(choices[1]))>>)
    IN  [best_match |-> choices[best[1]], score |-> best[2]]

\* ------------------------------------------------------------------ tables
EmptyTable == [cols |-> {}, rows |-> <<>>]

Indices(t) == 1..Len(t.rows)

IsNaN(r, c) == c \in r.nan

\* A table without the columns named (the cells go with them)
WithoutColumns(t, names) ==
    [cols |-> t.cols \ names,
     rows |-> [i \in Indices(t) |->
                 [cells |-> [c \in t.cols \ names |-> t.rows[i].cells[c]],
                  nan   |-> t.rows[i].nan \ names]]]

\* df[c] = values: column c added or overwritten, one value per row
WithColumn(t, c, values) ==
    [cols |-> t.cols \cup {c},
     rows |-> [i \in Indices(t) |->
                 [cells |-> [d \in t.cols \cup {c} |->
                               IF d = c THEN values[i] ELSE t.rows[i].cells[d]],
                  nan   |-> t.rows[i].nan \ {c}]]]

\* DataFrame.rename(columns={old: new})
RenameColumn(t, old, new) ==
    IF old \notin t.cols THEN t
    ELSE [cols |-> (t.cols \ {old}) \cup {new},
          rows |-> [i \in Indices(t) |->
                      [cells |-> [d \in (t.cols \ {old}) \cup {new} |->
                                    IF d = new THEN t.rows[i].cells[old]
                                    ELSE t.rows[i].cells[d]],
                       nan   |-> IF old \in t.rows[i].nan
                                 THEN (t.rows[i].nan \ {old}) \cup {new}
                                 ELSE t.rows[i].nan \ {new}]]]

\* DataFrame.drop(columns=names): a KeyError when a name is no column
DropRaisesIgnored(t, names) == FALSE

DropRaises(t, names) == ~(names \subseteq t.cols)

DropColumns(t, names) == IF DropRaises(t, names) THEN t ELSE WithoutColumns(t, names)

\* ------------------------------------------------------------------- dates
\* pd.to_datetime on a raw date <<year, month, day>>: days since 1970-01-01
ToDatetime(ymd) ==
    LET y   == IF ymd[2] <= 2 THEN ymd[1] - 1 ELSE ymd[1]
        era == y \div 400
        yoe == y - era * 400
        mp  == IF ymd[2] > 2 THEN ymd[2] - 3 ELSE ymd[2] + 9
        doy == (153 * mp + 2) \div 5 + ymd[3] - 1
        doe == yoe * 365 + yoe \div 4 - yoe \div 100 + doy
    IN  era * 146097 + doe - 719468

\* The calendar fields <<year, month, day>> of a datetime
CivilFromDays(days) ==
    LET z   == days + 719468
        era == z \div 146097
        doe == z - era * 146097
        yoe == (doe - doe \div 1460 + doe \div 36524 - doe \div 146096) \div 365
        doy == doe - (365 * yoe + yoe \div 4 - yoe \div 100)
        mp  == (5 * doy + 2) \div 153
        d   == doy - (153 * mp + 2) \div 5 + 1
        m   == IF mp < 10 THEN mp + 3 ELSE mp - 9
    IN  <<IF m <= 2 THEN yoe + era * 400 + 1 ELSE yoe + era * 400, m, d>>

DtYear(days) == CivilFromDays(days)[1]
DtQuarter(days) == (CivilFromDays(days)[2] - 1) \div 3 + 1
\* Monday is 0; 1970-01-01 was a Thursday
DtWeekday(days) == (days + 3) % 7

\* ------------------------------------------------------------------- merge
MergeKeys == {"postcode", "area", "date", "yr_built", "bedrooms"}

KeysMatch(l, r) ==
    \A k \in MergeKeys :
        /\ ~IsNaN(l, k)
        /\ ~IsNaN(r, k)
        /\ l.cells[k] = r.cells[k]

\* The row of an inner join made of a left and a right row
JoinedRow(l, r, lcols, rcols) ==
    [cells |-> [c \in lcols \cup rcols |->
                  IF c \in lcols THEN l.cells[c] ELSE r.cells[c]],
     nan   |-> l.nan \cup (r.nan \ lcols)]

\* The right rows whose keys match those of the left row l, in order
RECURSIVE MatchingRows(_, _)
MatchingRows(l, rrows) ==
    IF rrows = <<>> THEN <<>>
    ELSE IF KeysMatch(l, Head(rrows))
         THEN <<Head(rrows)>> \o MatchingRows(l, Tail(rrows))
         ELSE MatchingRows(l, Tail(rrows))

RECURSIVE JoinRows(_, _, _, _)
JoinRows(lrows, rrows, lcols, rcols) ==
    IF lrows = <<>> THEN <<>>
    ELSE LET l == Head(lrows)
             matches == MatchingRows(l, rrows)
         IN  [j \in 1..Len(matches) |-> JoinedRow(l, matches[j], lcols, rcols)]
             \o JoinRows(Tail(lrows), rrows, lcols, rcols)

\* The prices table as dataframe_merger leaves it: 'date' added, building_year renamed
PricesForMerge(prices) ==
    RenameColumn(
        WithColumn(prices, "date",
                   [i \in Indices(prices) |-> ToDatetime(prices.rows[i].cells["datesold"])]),
        "building_year", "yr_built")

\* dataframe_merger: inner join on the five keys, left order kept
dataframe_merger(prices, house_data) ==
    LET p == PricesForMerge(prices)
    IN  [cols |-> p.cols \cup house_data.cols,
         rows |-> JoinRows(p.rows, house_data.rows, p.cols, house_data.cols)]

\* ---------------------------------------------------------------- cleaning
FutileColumns == {"yr_renovated", "prev_owner", "datesold", "sqft_above"}

drop_futile_columns(df) == DropColumns(df, FutileColumns)

\* Distances are in thousandths: 100 is 100000, and /1000 is exact
DistanceThreshold == 100 * 1000

CorrectedDistance(d) == IF d >= DistanceThreshold THEN d \div 1000 ELSE d

correct_distance_unit(df) ==
    [df EXCEPT !.rows = [i \in Indices(df) |->
        IF IsNaN(df.rows[i], "distance") THEN df.rows[i]
        ELSE [df.rows[i] EXCEPT !.cells["distance"] = CorrectedDistance(@)]]]

string_transformer(df) ==
    [df EXCEPT !.rows = [i \in Indices(df) |->
        [df.rows[i] EXCEPT !.cells["condition"] = StrStrip(StrLower(@))]]]

\* The comparison of typo_fixer: the match replaces the value at score >= threshold
MeetsThresholdStrict(score, threshold) == score > threshold

MeetsThreshold(score, threshold) == score >= threshold

\* The value typo_fixer keeps for a row whose best match is m
FixedCondition(value, m, threshold) ==
    IF MeetsThreshold(m.score, threshold) THEN m.best_match ELSE value

RECURSIVE FixRows(_, _, _, _)
FixRows(rows, i, threshold, correct_condition_values) ==
    IF i > Len(rows) THEN <<>>
    ELSE LET value == rows[i].cells["condition"]
             m == ExtractOne(value, correct_condition_values)
         IN  << <<FixedCondition(value, m, threshold), m.score>> >>
             \o FixRows(rows, i + 1, threshold, correct_condition_values)

\* typo_fixer: one pass over the rows collects the conditions and the scores,
\* then both columns are assigned
typo_fixer(df, threshold, correct_condition_values) ==
    LET fixed == FixRows(df.rows, 1, threshold, correct_condition_values)
    IN  WithColumn(WithColumn(df, "condition", [i \in Indices(df) |-> fixed[i][1]]),
                   "similarity_scores", [i \in Indices(df) |-> fixed[i][2]])

\* ------------------------------------------------------ feature engineering
\* separate_X_and_y: df[target] raises a KeyError when target is no column
SeparateRaises(df, target) == target \notin df.cols

\* y = df[target].astype('float64'): the values are kept, one per row
TargetValues(df, target) == [i \in Indices(df) |-> df.rows[i].cells[target]]

\* X = df.loc[:, df.columns != target]
FeatureColumns(df, target) == WithoutColumns(df, {target})

\* Columns impute_missing leaves out of the imputation
NotImputed == {"postcode", "area", "date", "condition"}

IncludedColumns(df) == df.cols \ NotImputed

\* imp.fit_transform raises a ValueError on a table without rows
ImputeRaises(df) == Len(df.rows) = 0

\* Names get_feature_names_out gives the indicator columns
IndicatorName(c) ==
    CASE c = "sqft_living15" -> "missingindicator_sqft_living15"
      [] c = "sqft_lot15" -> "missingindicator_sqft_lot15"
      [] c = "floors" -> "missingindicator_floors"
      [] c = "distance" -> "missingindicator_distance"
      [] c = "bedrooms" -> "missingindicator_bedrooms"
      [] c = "yr_built" -> "missingindicator_yr_built"
      [] c = "price" -> "missingindicator_price"
      [] c = "similarity_scores" -> "missingindicator_similarity_scores"
      [] OTHER -> "missingindicator_other"

\* The included columns with a missing value in some row (add_indicator=True
\* makes an indicator column for each of them and for no other column)
ColumnsWithMissing(df) ==
    {c \in IncludedColumns(df) : \E i \in Indices(df) : IsNaN(df.rows[i], c)}

RECURSIVE SumObserved(_, _, _)
SumObserved(df, c, i) ==
    IF i > Len(df.rows) THEN 0
    ELSE (IF IsNaN(df.rows[i], c) THEN 0 ELSE df.rows[i].cells[c])
         + SumObserved(df, c, i + 1)

CountObserved(df, c) == Cardinality({i \in Indices(df) : ~IsNaN(df.rows[i], c)})

\* The value the imputer writes into a missing cell of column c.  The chained
\* regressions are deterministic for a fixed seed and input; the model takes
\* the column mean of the observed values, the imputer's initial estimate.
ImputedValue(df, c) == SumObserved(df, c, 1) \div CountObserved(df, c)

\* A column without any observed value is dropped by the imputer and stays missing
Imputable(df, c) == CountObserved(df, c) > 0

impute_missing(df) ==
    LET missing == ColumnsWithMissing(df)
        newcols == df.cols \cup {IndicatorName(c) : c \in missing}
    IN  [cols |-> newcols,
         rows |-> [i \in Indices(df) |->
            [cells |-> [d \in newcols |->
                IF \E c \in missing : d = IndicatorName(c)
                THEN IF IsNaN(df.rows[i], CHOOSE c \in missing : d = IndicatorName(c))
                     THEN 1 ELSE 0
                ELSE IF d \in missing /\ IsNaN(df.rows[i], d) /\ Imputable(df, d)
                     THEN ImputedValue(df, d)
                     ELSE df.rows[i].cells[d]],
             nan |-> {c \in df.rows[i].nan :
                        c \notin IncludedColumns(df) \/ ~Imputable(df, c)}]]]

datetime_decomposer(df, dt_column_name) ==
    LET dt(i) == df.rows[i].cells[dt_column_name]
        y == WithColumn(df, "year", [i \in Indices(df) |-> DtYear(dt(i))])
        q == WithColumn(y, "quarter", [i \in Indices(df) |-> DtQuarter(dt(i))])
        w == WithColumn(q, "weekday", [i \in Indices(df) |-> DtWeekday(dt(i))])
    IN  WithoutColumns(w, {dt_column_name})

\* The canonical labels, in the order etl passes them to the typo repair
ConditionVocabulary ==
    << <<"p","o","o","r">>,
       <<"t","o","l","e","r","a","b","l","e">>,
       <<"s","a","t","i","s","f","a","c","t","o","r","y">>,
       <<"g","o","o","d">>,
       <<"e","x","c","e","l","l","e","n","t">> >>

\* The dictionary of condition_encoder: label -> 1..5
ConditionCode(value) ==
    CASE value = <<"p","o","o","r">> -> 1
      [] value = <<"t","o","l","e","r","a","b","l","e">> -> 2
      [] value = <<"s","a","t","i","s","f","a","c","t","o","r","y">> -> 3
      [] value = <<"g","o","o","d">> -> 4
      [] value = <<"e","x","c","e","l","l","e","n","t">> -> 5
      [] OTHER -> 0

\* Series.map(dict): a value that is no key of the dictionary becomes NaN
condition_encoder(df) ==
    [df EXCEPT !.rows = [i \in Indices(df) |->
        LET code == ConditionCode(df.rows[i].cells["condition"])
        IN  [cells |-> [df.rows[i].cells EXCEPT !["condition"] = code],
             nan   |-> IF code = 0 THEN df.rows[i].nan \cup {"condition"}
                       ELSE df.rows[i].nan \ {"condition"}]]]

UnimportantFeatures ==
    {"floors", "similarity_scores", "missingindicator_sqft_living15",
     "missingindicator_sqft_lot15", "quarter", "weekday"}

drop_unimportant_features(df) == DropColumns(df, UnimportantFeatures)

\* ---------------------------------------------------------- target encoder
\* TargetEncoder(...) before any fit
NewEncoder ==
    [fitted |-> FALSE, postcode |-> <<>>, area |-> <<>>, target_mean |-> 0]

RECURSIVE SumTargets(_, _, _, _, _)
SumTargets(df, c, cat, y, i) ==
    IF i > Len(df.rows) THEN 0
    ELSE (IF df.rows[i].cells[c] = cat THEN y[i] ELSE 0)
         + SumTargets(df, c, cat, y, i + 1)

\* The statistic fit learns for one category: the mean target of its rows
\* (the smoothing towards the global mean is left out)
CategoryMean(df, c, cat, y) ==
    SumTargets(df, c, cat, y, 1)
        \div Cardinality({i \in Indices(df) : df.rows[i].cells[c] = cat})

RECURSIVE SumSeq(_)
SumSeq(y) == IF y = <<>> THEN 0 ELSE Head(y) + SumSeq(Tail(y))

Categories(df, c) == {df.rows[i].cells[c] : i \in Indices(df)}

\* encoder.fit(df[columns], target): the learned state replaces any earlier one
EncoderFit(df, y) ==
    [fitted |-> TRUE,
     postcode |-> [cat \in Categories(df, "postcode") |->
                     CategoryMean(df, "postcode", cat, y)],
     area |-> [cat \in Categories(df, "area") |-> CategoryMean(df, "area", cat, y)],
     target_mean |-> SumSeq(y) \div Len(y)]

\* encoder.transform on one cell: a category unseen in fit gets the target mean
EncodedCell(encoding, target_mean, cat) ==
    IF cat \in DOMAIN encoding THEN encoding[cat] ELSE target_mean

EncoderTransform(encoder, df) ==
    [df EXCEPT !.rows = [i \in Indices(df) |->
        [df.rows[i] EXCEPT
            !.cells["postcode"] = EncodedCell(encoder.postcode, encoder.target_mean, @),
            !.cells["area"] = EncodedCell(encoder.area, encoder.target_mean, @)]]]

\* target_encode: fit only when a target is given, then transform.
\* hasTarget says whether target is not None; encoder is NewEncoder for None.
EncoderAfter(df, hasTarget, target, encoder) ==
    IF hasTarget THEN EncoderFit(df, target) ELSE encoder

\* transform raises (NotFittedError) on an encoder that was never fitted, and
\* fit raises on a table without rows
TargetEncodeRaises(df, hasTarget, target, encoder) ==
    \/ hasTarget /\ Len(df.rows) = 0
    \/ ~hasTarget /\ ~encoder.fitted

target_encode(df, hasTarget, target, encoder) ==
    EncoderTransform(EncoderAfter(df, hasTarget, target, encoder), df)
\* ------------------------------------------------------------------ inputs
\* The join keys of the sales used as inputs
Key1 == [postcode |-> 2600, area |-> "north", datesold |-> <<2019, 2, 5>>,
         yr |-> 1990, bedrooms |-> 3]
Key2 == [postcode |-> 2905, area |-> "south", datesold |-> <<2020, 11, 14>>,
         yr |-> 2005, bedrooms |-> 4]
Key3 == [postcode |-> 2600, area |-> "north", datesold |-> <<2021, 7, 1>>,
         yr |-> 1990, bedrooms |-> 2]

DealColumns == {"datesold", "price", "postcode", "area", "building_year", "bedrooms"}

\* A row of deals.csv
DealRow(k, price) ==
    [cells |-> [c \in DealColumns |->
        CASE c = "datesold" -> k.datesold
          [] c = "price" -> price
          [] c = "postcode" -> k.postcode
          [] c = "area" -> k.area
          [] c = "building_year" -> k.yr
          [] OTHER -> k.bedrooms],
     nan |-> {}]

HouseColumns ==
    {"postcode", "area", "date", "yr_built", "bedrooms", "yr_renovated",
     "prev_owner", "sqft_above", "distance", "condition", "floors",
     "sqft_living15", "sqft_lot15"}

\* A row of house_info.json; read_json parses the 'date' field into a datetime
HouseRow(k, condition, distance, nan) ==
    [cells |-> [c \in HouseColumns |->
        CASE c = "postcode" -> k.postcode
          [] c = "area" -> k.area
          [] c = "date" -> ToDatetime(k.datesold)
          [] c = "yr_built" -> k.yr
          [] c = "bedrooms" -> k.bedrooms
          [] c = "yr_renovated" -> 0
          [] c = "prev_owner" -> "owner"
          [] c = "sqft_above" -> 1200
          [] c = "distance" -> distance
          [] c = "condition" -> condition
          [] c = "floors" -> 2
          [] c = "sqft_living15" -> 1500 + k.bedrooms
          [] OTHER -> 4000 + k.bedrooms],
     nan |-> nan]

\* The deals of the first table all find a house; the second has a duplicate
\* key and a sale without a house; the third joins with nothing
MatchedDeals == << DealRow(Key1, 500), DealRow(Key2, 300) >>

DealTables ==
    { MatchedDeals,
      << DealRow(Key1, 500), DealRow(Key1, 520), DealRow(Key3, 410) >>,
      << DealRow(Key3, 410) >> }

\* Distances: 5 and 99.999 are kilometres, 7500 and 100 are taken for metres
HouseTables ==
    { << HouseRow(Key1, <<"e","x","e","l","l","e","n","t">>, 7500 * 1000,
                  {"sqft_living15"}),
         HouseRow(Key2, <<" "," ","E","x","c","e","l","l","e","n","t"," ">>, 5 * 1000,
                  {"sqft_lot15"}) >>,
      << HouseRow(Key1, <<"e","x","e","l","l","e","n","t">>, 7500 * 1000,
                  {"sqft_living15"}),
         HouseRow(Key2, <<"g","o","o","d">>, 5 * 1000, {}) >>,
      << HouseRow(Key1, <<"m","e","d","i","o","c","r","e">>, 99999, {}),
         HouseRow(Key2, <<"g","o","o","d","l","y">>, 100 * 1000, {}) >>,
      << HouseRow(Key1, <<"G","o","o","d"," ">>, 100 * 1000 - 1,
                  {"sqft_living15", "sqft_lot15", "floors"}),
         HouseRow(Key2, <<"m","e","d","i","o","c","r","e">>, 250 * 1000,
                  {"distance"}) >> }

\* Columns a drifted house_info.json may lack
DriftedColumns == { {"sqft_above"}, {"floors"} }

Folder(d, h, absent) ==
    [deals |-> [cols |-> DealColumns, rows |-> d],
     house_info |-> WithoutColumns([cols |-> HouseColumns, rows |-> h], absent)]

\* The input folders: deals.csv and house_info.json
InputFolders ==
    {Folder(d, h, {}) : d \in DealTables, h \in HouseTables}
        \cup {Folder(MatchedDeals, h, a) : h \in HouseTables, a \in DriftedColumns}

\* target_file_name: None (the default) or a file name
None == "None"
TargetFileNames == {None, "housing_y.csv"}

\* The arguments of etl the run branches on
Arguments ==
    [fit_encoder : BOOLEAN, targets_included : BOOLEAN,
     target_file_name : TargetFileNames]

\* ------------------------------------------------------------------- state
NoFile == [exists |-> FALSE]

\* A feature store with nothing stored
EmptyStore == [featFile |-> NoFile, targFile |-> NoFile, encFile |-> NoFile]

WarningMessage == "Some GX validations failed."

\* threshold = 80 in data_extraction
Threshold == 80

VARIABLES
    pc,          \* the statement the run executes next, "done" or "failed"
    args,        \* the arguments of this run
    path,        \* the input folder of this run
    prices,      \* file_reader's deals table
    house_data,  \* file_reader's house table
    df,          \* the merged table, cleaned in place
    X,           \* the feature table of feature_engineering_pipeline
    y,           \* the target values
    t_encoder,   \* the target encoder in memory
    threshold,   \* typo_fixer's threshold argument
    correct_condition_values, \* typo_fixer's vocabulary argument
    success,     \* the checkpoint result's success flag
    store,       \* the feature store: feature, target and encoder file
    err,         \* the exception that aborted the run, "none" otherwise
    stdout,      \* the messages printed by this run
    trace,       \* history: the calls this run has made, in order
    shared,      \* whether X and df are one object
    runs,        \* number of runs started
    store0,      \* history: the feature store when this run started
    lastFit      \* history: the encoder of the last completed fit-mode run

vars == <<pc, args, path, prices, house_data, df, X, y, t_encoder, threshold,
          correct_condition_values, success, store, err, stdout, trace, shared,
          runs, store0, lastFit>>

Init ==
    /\ pc = "file_reader"
    /\ args \in Arguments
    /\ path \in InputFolders
    /\ prices = EmptyTable
    /\ house_data = EmptyTable
    /\ df = EmptyTable
    /\ X = EmptyTable
    /\ y = <<>>
    /\ t_encoder = NewEncoder
    /\ threshold = Threshold
    /\ correct_condition_values = ConditionVocabulary
    /\ success = TRUE
    /\ store = EmptyStore
    /\ err = "none"
    /\ stdout = <<>>
    /\ trace = <<>>
    /\ shared = FALSE
    /\ runs = 1
    /\ store0 = EmptyStore
    /\ lastFit = NewEncoder

\* An exception leaves the run: nothing else changes
Raise(kind, call) ==
    /\ pc' = "failed"
    /\ err' = kind
    /\ trace' = Append(trace, call)

Call(call, next) ==
    /\ pc' = next
    /\ trace' = Append(trace, call)
    /\ err' = err
\* ------------------------------------------------------- etl: extraction
\* file_reader: both files are read into tables
FileReader ==
    /\ pc = "file_reader"
    /\ prices' = path.deals
    /\ house_data' = path.house_info
    /\ Call("file_reader", "dataframe_merger")
    /\ UNCHANGED <<args, path, df, X, y, t_encoder, threshold,
                   correct_condition_values, success, store, stdout, shared,
                   runs, store0, lastFit>>

\* dataframe_merger: prices is changed in place, df is the inner join
DataframeMerger ==
    /\ pc = "dataframe_merger"
    /\ prices' = PricesForMerge(prices)
    /\ df' = dataframe_merger(prices, house_data)
    /\ Call("dataframe_merger", "drop_futile_columns")
    /\ UNCHANGED <<args, path, house_data, X, y, t_encoder, threshold,
                   correct_condition_values, success, store, stdout, shared,
                   runs, store0, lastFit>>

DropFutileColumns ==
    /\ pc = "drop_futile_columns"
    /\ IF DropRaises(df, FutileColumns)
       THEN Raise("KeyError", "drop_futile_columns") /\ df' = df
       ELSE Call("drop_futile_columns", "correct_distance_unit")
            /\ df' = drop_futile_columns(df)
    /\ UNCHANGED <<args, path, prices, house_data, X, y, t_encoder, threshold,
                   correct_condition_values, success, store, stdout, shared,
                   runs, store0, lastFit>>

CorrectDistanceUnit ==
    /\ pc = "correct_distance_unit"
    /\ df' = correct_distance_unit(df)
    /\ Call("correct_distance_unit", "string_transformer")
    /\ UNCHANGED <<args, path, prices, house_data, X, y, t_encoder, threshold,
                   correct_condition_values, success, store, stdout, shared,
                   runs, store0, lastFit>>

StringTransformer ==
    /\ pc = "string_transformer"
    /\ df' = string_transformer(df)
    /\ Call("string_transformer", "typo_fixer")
    /\ UNCHANGED <<args, path, prices, house_data, X, y, t_encoder, threshold,
                   correct_condition_values, success, store, stdout, shared,
                   runs, store0, lastFit>>

TypoFixer ==
    /\ pc = "typo_fixer"
    /\ df' = typo_fixer(df, threshold, correct_condition_values)
    /\ Call("typo_fixer", "validate")
    /\ UNCHANGED <<args, path, prices, house_data, X, y, t_encoder, threshold,
                   correct_condition_values, success, store, stdout, shared,
                   runs, store0, lastFit>>

\* ------------------------------------------------------- etl: validation
\* Where etl goes after the checkpoint has run, whatever its result
AfterValidationFatal(ok) == IF ok THEN "feature_engineering" ELSE "failed"

AfterValidation(ok) == "feature_engineering"

\* batch_creator and create_checkpoint: the validation service answers with a
\* success flag; a failure is printed
Validate ==
    /\ pc = "validate"
    /\ \E ok \in BOOLEAN :
        /\ success' = ok
        /\ stdout' = IF ok THEN stdout ELSE Append(stdout, WarningMessage)
        /\ Call("validate", AfterValidation(ok))
    /\ UNCHANGED <<args, path, prices, house_data, df, X, y, t_encoder, threshold,
                   correct_condition_values, store, shared, runs, store0, lastFit>>

\* ------------------------------------------ feature_engineering_pipeline
\* The statement that follows each in-place stage of lines 322-332
FeNextSwapped(stage) ==
    CASE stage = "split" -> "datetime_decomposer"
      [] stage = "datetime_decomposer" -> "impute_missing"
      [] stage = "impute_missing" -> "condition_encoder"
      [] stage = "condition_encoder" -> "drop_unimportant_features"
      [] OTHER -> "build_paths"

FeNext(stage) ==
    CASE stage = "split" -> "impute_missing"
      [] stage = "impute_missing" -> "datetime_decomposer"
      [] stage = "datetime_decomposer" -> "condition_encoder"
      [] stage = "condition_encoder" -> "drop_unimportant_features"
      [] OTHER -> "build_paths"

\* Whether X = df.copy() leaves X and df one object
DefensiveCopyIsAlias == TRUE

DefensiveCopyShares == FALSE

\* What an in-place change of X makes of the caller's table
CallerTable(newX) == IF shared THEN newX ELSE df

\* targets_included: X, y = separate_X_and_y(df, target='price')
SeparateXAndY ==
    /\ pc = "feature_engineering"
    /\ args.targets_included
    /\ IF SeparateRaises(df, "price")
       THEN Raise("KeyError", "separate_X_and_y") /\ UNCHANGED <<X, y>>
       ELSE /\ Call("separate_X_and_y", FeNext("split"))
            /\ X' = FeatureColumns(df, "price")
            /\ y' = TargetValues(df, "price")
    /\ UNCHANGED <<args, path, prices, house_data, df, t_encoder, threshold,
                   correct_condition_values, success, store, stdout, shared,
                   runs, store0, lastFit>>

\* no targets and fit_encoder: the ValueError of line 326
RejectFitWithoutTargets ==
    /\ pc = "feature_engineering"
    /\ ~args.targets_included
    /\ args.fit_encoder
    /\ Raise("ValueError", "feature_engineering_pipeline")
    /\ UNCHANGED <<args, path, prices, house_data, df, X, y, t_encoder, threshold,
                   correct_condition_values, success, store, stdout, shared,
                   runs, store0, lastFit>>

\* no targets: X = df.copy()
CopyFeatures ==
    /\ pc = "feature_engineering"
    /\ ~args.targets_included
    /\ ~args.fit_encoder
    /\ X' = df
    /\ shared' = DefensiveCopyShares
    /\ Call("copy", FeNext("split"))
    /\ UNCHANGED <<args, path, prices, house_data, df, y, t_encoder, threshold,
                   correct_condition_values, success, store, stdout,
                   runs, store0, lastFit>>

ImputeMissing ==
    /\ pc = "impute_missing"
    /\ IF ImputeRaises(X)
       THEN Raise("ValueError", "impute_missing") /\ UNCHANGED <<X, df>>
       ELSE /\ Call("impute_missing", FeNext("impute_missing"))
            /\ X' = impute_missing(X)
            /\ df' = CallerTable(impute_missing(X))
    /\ UNCHANGED <<args, path, prices, house_data, y, t_encoder, threshold,
                   correct_condition_values, success, store, stdout, shared,
                   runs, store0, lastFit>>

DatetimeDecomposer ==
    /\ pc = "datetime_decomposer"
    /\ X' = datetime_decomposer(X, "date")
    /\ df' = CallerTable(datetime_decomposer(X, "date"))
    /\ Call("datetime_decomposer", FeNext("datetime_decomposer"))
    /\ UNCHANGED <<args, path, prices, house_data, y, t_encoder, threshold,
                   correct_condition_values, success, store, stdout, shared,
                   runs, store0, lastFit>>

ConditionEncoder ==
    /\ pc = "condition_encoder"
    /\ X' = condition_encoder(X)
    /\ df' = CallerTable(condition_encoder(X))
    /\ Call("condition_encoder", FeNext("condition_encoder"))
    /\ UNCHANGED <<args, path, prices, house_data, y, t_encoder, threshold,
                   correct_condition_values, success, store, stdout, shared,
                   runs, store0, lastFit>>

DropUnimportantFeatures ==
    /\ pc = "drop_unimportant_features"
    /\ IF DropRaises(X, UnimportantFeatures)
       THEN Raise("KeyError", "drop_unimportant_features") /\ UNCHANGED <<X, df>>
       ELSE /\ Call("drop_unimportant_features", FeNext("drop_unimportant_features"))
            /\ X' = drop_unimportant_features(X)
            /\ df' = CallerTable(drop_unimportant_features(X))
    /\ UNCHANGED <<args, path, prices, house_data, y, t_encoder, threshold,
                   correct_condition_values, success, store, stdout, shared,
                   runs, store0, lastFit>>

\* feature_store_path / target_file_name raises a TypeError on None
PathJoinRaises(name) == name = None

\* Lines 334-336: the three paths are built, whatever the flags
BuildPaths ==
    /\ pc = "build_paths"
    /\ IF PathJoinRaises(args.target_file_name)
       THEN Raise("TypeError", "build_paths")
       ELSE Call("build_paths", IF args.fit_encoder THEN "fit_encoder" ELSE "load_encoder")
    /\ UNCHANGED <<args, path, prices, house_data, df, X, y, t_encoder, threshold,
                   correct_condition_values, success, store, stdout, shared,
                   runs, store0, lastFit>>

\* The calls target_encode makes on the encoder
EncoderCalls(hasTarget) ==
    IF hasTarget THEN <<"target_encode", "encoder.fit", "encoder.transform">>
    ELSE <<"target_encode", "encoder.transform">>

\* Line 339: t_encoder = target_encode(X, columns, target=y)
FitEncoder ==
    /\ pc = "fit_encoder"
    /\ t_encoder' = EncoderAfter(X, TRUE, y, NewEncoder)
    /\ X' = target_encode(X, TRUE, y, NewEncoder)
    /\ df' = CallerTable(target_encode(X, TRUE, y, NewEncoder))
    /\ pc' = "store_features"
    /\ trace' = trace \o EncoderCalls(TRUE)
    /\ UNCHANGED <<args, path, prices, house_data, y, threshold,
                   correct_condition_values, success, store, err, stdout, shared,
                   runs, store0, lastFit>>

\* Lines 345-346: the stored encoder is read; open() raises when it is missing
LoadEncoder ==
    /\ pc = "load_encoder"
    /\ IF store.encFile.exists
       THEN Call("load_encoder", "apply_encoder") /\ t_encoder' = store.encFile.data
       ELSE Raise("FileNotFoundError", "load_encoder") /\ t_encoder' = t_encoder
    /\ UNCHANGED <<args, path, prices, house_data, df, X, y, threshold,
                   correct_condition_values, success, store, stdout, shared,
                   runs, store0, lastFit>>

\* Whether the call of line 347 passes a target to target_encode
ApplyPassesTargetIfIncluded(a) == a.targets_included

ApplyPassesTarget(a) == FALSE

\* Line 347: target_encode(X, columns, encoder=t_encoder)
ApplyEncoder ==
    /\ pc = "apply_encoder"
    /\ LET hasTarget == ApplyPassesTarget(args)
       IN  IF TargetEncodeRaises(X, hasTarget, y, t_encoder)
           THEN Raise("NotFittedError", "target_encode") /\ UNCHANGED <<X, df, t_encoder>>
           ELSE /\ t_encoder' = EncoderAfter(X, hasTarget, y, t_encoder)
                /\ X' = target_encode(X, hasTarget, y, t_encoder)
                /\ df' = CallerTable(target_encode(X, hasTarget, y, t_encoder))
                /\ pc' = "store_features"
                /\ trace' = trace \o EncoderCalls(hasTarget)
                /\ err' = err
    /\ UNCHANGED <<args, path, prices, house_data, y, threshold,
                   correct_condition_values, success, store, stdout, shared,
                   runs, store0, lastFit>>

\* The file a write leaves behind
Written(data) == [exists |-> TRUE, data |-> data]

\* store_features: lines 340 and 348
StoreFeatures ==
    /\ pc = "store_features"
    /\ store' = [store EXCEPT !.featFile = Written(X)]
    /\ stdout' = Append(stdout, "Features stored")
    /\ Call("store_features",
            IF args.fit_encoder \/ args.targets_included
            THEN "store_targets" ELSE "done")
    /\ UNCHANGED <<args, path, prices, house_data, df, X, y, t_encoder, threshold,
                   correct_condition_values, success, shared, runs, store0, lastFit>>

\* store_targets: lines 341 and 350
StoreTargets ==
    /\ pc = "store_targets"
    /\ store' = [store EXCEPT !.targFile = Written(y)]
    /\ stdout' = Append(stdout, "Targets stored")
    /\ Call("store_targets", IF args.fit_encoder THEN "store_encoder" ELSE "done")
    /\ UNCHANGED <<args, path, prices, house_data, df, X, y, t_encoder, threshold,
                   correct_condition_values, success, shared, runs, store0, lastFit>>

\* store_encoder: line 342, the last statement of a fit-mode run
StoreEncoder ==
    /\ pc = "store_encoder"
    /\ store' = [store EXCEPT !.encFile = Written(t_encoder)]
    /\ stdout' = Append(stdout, "Encoder stored")
    /\ lastFit' = t_encoder
    /\ Call("store_encoder", "done")
    /\ UNCHANGED <<args, path, prices, house_data, df, X, y, t_encoder, threshold,
                   correct_condition_values, success, shared, runs, store0>>

\* etl returns or raises: its locals are gone, the feature store stays
Return ==
    /\ pc \in {"done", "failed"}
    /\ pc' = "returned"
    /\ prices' = EmptyTable
    /\ house_data' = EmptyTable
    /\ df' = EmptyTable
    /\ X' = EmptyTable
    /\ y' = <<>>
    /\ t_encoder' = NewEncoder
    /\ success' = TRUE
    /\ err' = "none"
    /\ stdout' = <<>>
    /\ trace' = <<>>
    /\ shared' = FALSE
    /\ store0' = store
    /\ UNCHANGED <<args, path, threshold, correct_condition_values, store, runs,
                   lastFit>>

\* The caller runs etl again, with any arguments and input, on the same store
NewRun ==
    /\ pc = "returned"
    /\ runs < MaxRuns
    /\ pc' = "file_reader"
    /\ args' \in Arguments
    /\ path' \in InputFolders
    /\ runs' = runs + 1
    /\ UNCHANGED <<prices, house_data, df, X, y, t_encoder, threshold,
                   correct_condition_values, success, store, err, stdout, trace,
                   shared, store0, lastFit>>

Next ==
    \/ FileReader
    \/ DataframeMerger
    \/ DropFutileColumns
    \/ CorrectDistanceUnit
    \/ StringTransformer
    \/ TypoFixer
    \/ Validate
    \/ SeparateXAndY
    \/ RejectFitWithoutTargets
    \/ CopyFeatures
    \/ ImputeMissing
    \/ DatetimeDecomposer
    \/ ConditionEncoder
    \/ DropUnimportantFeatures
    \/ BuildPaths
    \/ FitEncoder
    \/ LoadEncoder
    \/ ApplyEncoder
    \/ StoreFeatures
    \/ StoreTargets
    \/ StoreEncoder
    \/ Return
    \/ NewRun

Spec == Init /\ [][Next]_vars
\* ------------------------------------------- typo repair on drawn inputs
\* Texts over a two-letter alphabet, up to MaxLen characters
TypoAlphabet == {"a", "b"}

TextsOfLength(n) == [1..n -> TypoAlphabet]

TypoTexts == UNION {TextsOfLength(n) : n \in 1..MaxLen}

\* Vocabularies: one to MaxVocab labels of MaxLen characters, in any order
TypoVocabularies == UNION {[1..n -> TextsOfLength(MaxLen)] : n \in 1..MaxVocab}

ConditionTable(value) ==
    [cols |-> {"condition"},
     rows |-> << [cells |-> [c \in {"condition"} |-> value], nan |-> {}] >>]

\* typo_fixer called on a one-row table; house_data keeps the table as given
InitTypo ==
    /\ pc = "typo_fixer"
    /\ args = [fit_encoder |-> FALSE, targets_included |-> FALSE,
               target_file_name |-> None]
    /\ path = [deals |-> EmptyTable, house_info |-> EmptyTable]
    /\ prices = EmptyTable
    /\ \E value \in TypoTexts :
        /\ house_data = ConditionTable(value)
        /\ df = ConditionTable(value)
    /\ X = EmptyTable
    /\ y = <<>>
    /\ t_encoder = NewEncoder
    /\ threshold = Threshold
    /\ correct_condition_values \in TypoVocabularies
    /\ success = TRUE
    /\ store = EmptyStore
    /\ err = "none"
    /\ stdout = <<>>
    /\ trace = <<>>
    /\ shared = FALSE
    /\ runs = 1
    /\ store0 = EmptyStore
    /\ lastFit = NewEncoder

NextTypo == TypoFixer

SpecTypo == InitTypo /\ [][NextTypo]_vars

\* ------------------------------------------------------------------ claims
Calls == {trace[i] : i \in 1..Len(trace)}

IsPrefix(s, t) == Len(s) <= Len(t) /\ \A i \in 1..Len(s) : s[i] = t[i]

\* The run got through feature pruning: its input has every expected column
PrunedFeatures ==
    \E i \in 1..(Len(trace) - 1) : trace[i] = "drop_unimportant_features"

RunEnded == pc \in {"done", "failed"}

\* C1: a run with fit_encoder and without targets raises the configuration
\* error before anything else has happened: no input file read, no
\* validation run, no computation made.
C1_ConfigErrorBeforeAnyWork ==
    (args.fit_encoder /\ ~args.targets_included /\ pc # "returned")
        => \/ trace = <<>>
           \/ /\ pc = "failed"
              /\ err = "ValueError"
              /\ trace = <<"feature_engineering_pipeline">>

\* C2: an apply-mode run that finds no stored encoder aborts with the
\* resource error of the missing file, fits no encoder and writes no file.
C2_MissingEncoderIsResourceError ==
    (RunEnded /\ ~args.fit_encoder /\ ~store0.encFile.exists /\ PrunedFeatures)
        => /\ pc = "failed"
           /\ err = "FileNotFoundError"
           /\ "encoder.fit" \notin Calls
           /\ store = store0

\* A step of an apply-mode run: the encoder file and the loaded encoder stay
C3_ApplyStep ==
    (~args.fit_encoder /\ pc # "returned")
        => /\ store'.encFile = store.encFile
           /\ "encoder.fit" \notin {trace'[i] : i \in 1..Len(trace')}
           /\ (t_encoder.fitted /\ pc' # "returned") => t_encoder' = t_encoder

\* C3: an apply-mode run never calls fit, never changes the learned state of
\* the encoder it loaded and never writes the encoder file; the stored
\* encoder is always the one of the last completed fit-mode run.
C3_ApplyModeNeverRefits ==
    /\ [][C3_ApplyStep]_vars
    /\ [](store.encFile.exists => store.encFile = Written(lastFit))

C3_Witness ==
    /\ pc = "done"
    /\ ~args.fit_encoder
    /\ args.targets_included
    /\ "encoder.transform" \in Calls
    /\ store.encFile = Written(lastFit)
    /\ t_encoder = lastFit

\* Number of missing cells of a table
RECURSIVE CountMissing(_, _)
CountMissing(rows, i) ==
    IF i > Len(rows) THEN 0
    ELSE Cardinality(rows[i].nan) + CountMissing(rows, i + 1)

\* An input folder with one missing value, one typo and one large distance
SyntheticInput(p) ==
    LET h == p.house_info
    IN  /\ h.cols = HouseColumns
        /\ p.deals.rows = MatchedDeals
        /\ CountMissing(h.rows, 1) = 1
        /\ Cardinality({i \in Indices(h) :
               h.rows[i].cells["distance"] >= DistanceThreshold}) = 1
        /\ Cardinality({i \in Indices(h) :
               ConditionCode(StrStrip(StrLower(h.rows[i].cells["condition"]))) = 0}) = 1

\* C4: on an input with exactly one missing numeric value, one typo'd
\* condition and one distance >= 100, a fit-mode run with targets completes
\* and stores the features and the unmodified prices.
C4_SyntheticRunCompletes ==
    (RunEnded /\ args.fit_encoder /\ args.targets_included
        /\ args.target_file_name # None /\ SyntheticInput(path))
        => /\ pc = "done"
           /\ store.featFile = Written(X)
           /\ store.targFile = Written(TargetValues(df, "price"))

\* C5: an apply-mode run without targets and with a stored encoder completes,
\* having written the feature file and neither a target nor an encoder file,
\* also when target_file_name is None.
C5_InferenceRunCompletes ==
    (RunEnded /\ ~args.fit_encoder /\ ~args.targets_included
        /\ store0.encFile.exists /\ PrunedFeatures)
        => /\ pc = "done"
           /\ store.featFile = Written(X)
           /\ store.targFile = store0.targFile
           /\ store.encFile = store0.encFile

\* The validation step, whatever the success flag
C6_ValidateStep ==
    pc = "validate"
        => /\ pc' = "feature_engineering"
           /\ df' = df
           /\ store' = store
           /\ err' = "none"
           /\ stdout' = IF success' THEN stdout ELSE Append(stdout, WarningMessage)

\* The feature table of a run on the cleaned table d, before target encoding
PrunedTable(d, a) ==
    drop_unimportant_features(condition_encoder(datetime_decomposer(
        impute_missing(IF a.targets_included THEN FeatureColumns(d, "price") ELSE d),
        "date")))

\* Whether feature engineering on d completes
Completes(d, a, s0) ==
    /\ a.targets_included \/ ~a.fit_encoder
    /\ a.targets_included => ~SeparateRaises(d, "price")
    /\ ~ImputeRaises(d)
    /\ ~DropRaises(condition_encoder(datetime_decomposer(
            impute_missing(IF a.targets_included THEN FeatureColumns(d, "price") ELSE d),
            "date")), UnimportantFeatures)
    /\ ~PathJoinRaises(a.target_file_name)
    /\ a.fit_encoder \/ s0.encFile.exists

\* The store a run on d leaves behind
StoreAfter(d, a, s0) ==
    IF ~Completes(d, a, s0) THEN s0
    ELSE LET t == PrunedTable(d, a)
             enc == IF a.fit_encoder THEN EncoderFit(t, TargetValues(d, "price"))
                    ELSE s0.encFile.data
         IN  [featFile |-> Written(EncoderTransform(enc, t)),
              targFile |-> IF a.targets_included
                           THEN Written(TargetValues(d, "price")) ELSE s0.targFile,
              encFile |-> IF a.fit_encoder THEN Written(enc) ELSE s0.encFile]

\* The end of a run that was validated does not depend on the success flag
C6_Outcome ==
    (RunEnded /\ "validate" \in Calls)
        => /\ (pc = "done") = Completes(df, args, store0)
           /\ store = StoreAfter(df, args, store0)

\* C6: validation failure is not fatal.  Whatever the success flag, the step
\* after validation is feature engineering on the same table, nothing is
\* written by the validation itself and a failure only prints the warning;
\* and what the run stores in the end is determined by the cleaned table,
\* the arguments and the store alone.
C6_ValidationNonFatal == [][C6_ValidateStep]_vars /\ []C6_Outcome

C6_Witness ==
    /\ pc = "done"
    /\ ~success
    /\ stdout[1] = WarningMessage
    /\ store.featFile = Written(X)
    /\ store # store0

\* The two column-drop steps
C7_DropStep ==
    /\ pc = "drop_futile_columns" =>
        IF FutileColumns \subseteq df.cols
        THEN pc' # "failed" /\ df'.cols = df.cols \ FutileColumns
        ELSE pc' = "failed" /\ err' = "KeyError" /\ df' = df
    /\ pc = "drop_unimportant_features" =>
        IF UnimportantFeatures \subseteq X.cols
        THEN pc' # "failed" /\ X'.cols = X.cols \ UnimportantFeatures
        ELSE pc' = "failed" /\ err' = "KeyError" /\ X' = X

\* C7: each of the two column-drop steps fails with a KeyError and leaves the
\* table as it was when a listed column is absent, and drops exactly the
\* listed columns otherwise.
C7_DropsDetectSchemaDrift == [][C7_DropStep]_vars

C7_Witness ==
    /\ pc = "failed"
    /\ err = "KeyError"
    /\ trace[Len(trace)] = "drop_unimportant_features"
    /\ X.cols \cap UnimportantFeatures # {}
    /\ ~(UnimportantFeatures \subseteq X.cols)

\* The similarity score of a value and a label
Score(value, label) == FuzzRatio(FullProcess(value), FullProcess(label))

\* The scores of a value against the labels, in vocabulary order
RECURSIVE Scores(_, _, _)
Scores(value, labels, k) ==
    IF k > Len(labels) THEN <<>>
    ELSE <<Score(value, labels[k])>> \o Scores(value, labels, k + 1)

\* The typo-repair step, row by row
C8_TypoStep ==
    (pc = "typo_fixer" /\ pc' = "validate") =>
        /\ Len(df'.rows) = Len(df.rows)
        /\ \A i \in Indices(df) :
            LET value == df.rows[i].cells["condition"]
                labels == correct_condition_values
                sc == Scores(value, labels, 1)
            IN  \E k \in 1..Len(labels) :
                  /\ \A j \in 1..Len(labels) : sc[j] <= sc[k]
                  /\ \A j \in 1..(k - 1) : sc[j] < sc[k]
                  /\ df'.rows[i].cells["similarity_scores"] = sc[k]
                  /\ df'.rows[i].cells["condition"] =
                        IF sc[k] >= 80 THEN labels[k] ELSE value

ExtractionCalls ==
    <<"file_reader", "dataframe_merger", "drop_futile_columns",
      "correct_distance_unit", "string_transformer", "typo_fixer", "validate">>

StageCalls ==
    <<"impute_missing", "datetime_decomposer", "condition_encoder",
      "drop_unimportant_features", "build_paths">>

CallOrder(a) ==
    ExtractionCalls
    \o (IF a.targets_included THEN <<"separate_X_and_y">>
        ELSE IF a.fit_encoder THEN <<"feature_engineering_pipeline">>
        ELSE <<"copy">>)
    \o StageCalls
    \o (IF a.fit_encoder
        THEN <<"target_encode", "encoder.fit", "encoder.transform",
               "store_features", "store_targets", "store_encoder">>
        ELSE <<"load_encoder", "target_encode", "encoder.transform", "store_features">>
             \o (IF a.targets_included THEN <<"store_targets">> ELSE <<>>))

\* C9: the calls of a run follow the one order: extraction, validation,
\* split (or copy), imputation, temporal decomposition, condition encoding,
\* feature pruning, target-mean encoding, persistence; and nothing is
\* written before the target-mean encoding has finished.
C9_StageOrder ==
    /\ IsPrefix(trace, CallOrder(args))
    /\ (pc # "returned" /\ store # store0) => "encoder.transform" \in Calls

C9_Witness ==
    /\ pc = "done"
    /\ args.fit_encoder
    /\ trace = CallOrder(args)

\* The statements of feature_engineering_pipeline
FeStatements ==
    {"feature_engineering", "impute_missing", "datetime_decomposer",
     "condition_encoder", "drop_unimportant_features", "build_paths",
     "fit_encoder", "load_encoder", "apply_encoder", "store_features",
     "store_targets", "store_encoder"}

C10_FeStep == pc \in FeStatements => df' = df

\* C10: feature engineering leaves the caller's table untouched: from the
\* call of feature_engineering_pipeline to its return or failure no step
\* changes df.
C10_CallerTableUntouched == [][C10_FeStep]_vars

C10_Witness ==
    /\ pc = "done"
    /\ ~args.targets_included
    /\ "date" \in df.cols
    /\ "date" \notin X.cols
    /\ "year" \in X.cols
    /\ "similarity_scores" \in df.cols
    /\ "similarity_scores" \notin X.cols
====
